---- MODULE Spec2Model ----
(***************************************************************************)
(* Model of render_book_plot.py: one run of main() over a decisions        *)
(* database: connect, build_delta_frame, render_plot, savefig, close.      *)
(*                                                                         *)
(* Time is measured in ticks; MsPerDay ticks make one UTC day and          *)
(* DaysPerYear days make one calendar year, so that start_ms(year) lies on *)
(* a day boundary exactly as the UTC millisecond instants of the source.   *)
(* A database row stands for one row of the join that already satisfies    *)
(* the fixed country / case-type / institution conditions of the WHERE     *)
(* clause; the time window is modelled explicitly.                         *)
(***************************************************************************)
EXTENDS Integers, Sequences, FiniteSets, TLC

(* ------------------------------ bounds --------------------------------- *)
MsPerDay == 2
DaysPerYear == 5
MaxRows == 2

(* ------------------------- program constants --------------------------- *)
RunYear == 2026

\* decision-marker labels, in the lexicographic order pandas sorts them in
MarkerLabels == <<"granted", "refused">>
Markers == {MarkerLabels[i] : i \in 1..Len(MarkerLabels)}
Counts == {-1, 1, 2}

\* matplotlib's default property cycle, used by DataFrame.plot on panel 0
PropCycle == <<"C0", "C1", "C2", "C3", "C4", "C5", "C6", "C7", "C8", "C9">>

\* a missing value (NaN) is the empty tuple, a present value v is <<v>>
NaN == <<>>

(* --------------------------- generic helpers --------------------------- *)
RECURSIVE SumCounts(_)
SumCounts(S) ==
  IF S = {} THEN 0
  ELSE LET r == CHOOSE x \in S : TRUE IN r.count + SumCounts(S \ {r})

MinOf(S) == CHOOSE x \in S : \A y \in S : x <= y
MaxOf(S) == CHOOSE x \in S : \A y \in S : x >= y

RECURSIVE SortedSeq(_)
SortedSeq(S) ==
  IF S = {} THEN <<>> ELSE <<MinOf(S)>> \o SortedSeq(S \ {MinOf(S)})

RECURSIVE Concat(_)
Concat(ss) == IF ss = <<>> THEN <<>> ELSE Head(ss) \o Concat(Tail(ss))

Range(s) == {s[i] : i \in 1..Len(s)}

(* ------------------------- build_delta_frame --------------------------- *)
\* pd.Timestamp(f"{year}-01-01", tz="UTC") as an instant in ticks
start_ms(year) == year * DaysPerYear * MsPerDay
end_ms(year) == (year + 1) * DaysPerYear * MsPerDay

\* the time-window part of the WHERE clause
sql_where_mut(r, s, e) == r.ts > s /\ r.ts <= e
sql_where(r, s, e) == r.ts >= s /\ r.ts < e

read_sql_query(database, year) ==
  {r \in database : sql_where(r, start_ms(year), end_ms(year))}

\* df["ts"].dt.floor("D"): the UTC day of a tick, as a day number
floor_D(ts) == ts \div MsPerDay

\* groupby(["date","decision_marker"])["count"].sum().reset_index()
\*   .sort_values(["decision_marker","date"])
group_keys(df) == {<<floor_D(r.ts), r.marker>> : r \in df}

group_sum(df, d, c) ==
  SumCounts({r \in df : floor_D(r.ts) = d /\ r.marker = c})

marker_rows(df, c) ==
  LET days == SortedSeq({k[1] : k \in {x \in group_keys(df) : x[2] = c}})
  IN  [i \in 1..Len(days) |->
         [decision_marker |-> c, date |-> days[i],
          count |-> group_sum(df, days[i], c)]]

daily_frame(df) ==
  Concat([j \in 1..Len(MarkerLabels) |-> marker_rows(df, MarkerLabels[j])])

\* daily.groupby("decision_marker")["count"].cumsum()
RECURSIVE group_cumsum_at(_, _)
group_cumsum_at(rows, i) ==
  IF i > 1 /\ rows[i - 1].decision_marker = rows[i].decision_marker
  THEN group_cumsum_at(rows, i - 1) + rows[i].count
  ELSE rows[i].count

group_cumsum_mut(rows) == [i \in 1..Len(rows) |-> rows[i].count]
group_cumsum(rows) == [i \in 1..Len(rows) |-> group_cumsum_at(rows, i)]

\* daily.groupby("decision_marker")["cumulative"].diff(): NaN on the first
\* row of every group
group_diff(rows, cumulative) ==
  [i \in 1..Len(rows) |->
     IF i > 1 /\ rows[i - 1].decision_marker = rows[i].decision_marker
     THEN <<cumulative[i] - cumulative[i - 1]>>
     ELSE NaN]

\* Series.fillna(other) on aligned sequences
series_fillna(s, other) ==
  [i \in 1..Len(s) |-> IF s[i] = NaN THEN other[i] ELSE s[i][1]]

\* the frame `daily` after line 58: columns count, cumulative and delta
with_delta(rows) ==
  LET cumulative == group_cumsum(rows)
      delta_col == series_fillna(group_diff(rows, cumulative), cumulative)
  IN  [i \in 1..Len(rows) |->
         [decision_marker |-> rows[i].decision_marker,
          date |-> rows[i].date,
          count |-> rows[i].count,
          cumulative |-> cumulative[i],
          delta |-> delta_col[i]]]

\* a table: index (days, in order), columns (labels, in order), val
EmptyFrame == [index |-> <<>>, columns |-> <<>>, val |-> <<>>]

Cells(t) == Range(t.index) \X Range(t.columns)

\* DataFrame.fillna(0) / DataFrame.fillna(other)
frame_fillna_value(t, v) ==
  [t EXCEPT !.val = [k \in Cells(t) |->
                       IF t.val[k] = NaN THEN v ELSE t.val[k][1]]]

frame_fillna(t, other) ==
  [t EXCEPT !.val = [k \in Cells(t) |->
                       IF t.val[k] = NaN THEN other.val[k] ELSE t.val[k][1]]]

\* daily.pivot(index="date", columns="decision_marker", values="delta"):
\* one row per date that has rows, NaN for an absent (date, marker)
pivot_table(rows) ==
  LET idx == SortedSeq({rows[i].date : i \in 1..Len(rows)})
      present == {rows[i].decision_marker : i \in 1..Len(rows)}
      cols == SelectSeq(MarkerLabels, LAMBDA c : c \in present)
  IN  [index |-> idx, columns |-> cols,
       val |-> [k \in Range(idx) \X Range(cols) |->
                  IF \E i \in 1..Len(rows) :
                       rows[i].date = k[1] /\ rows[i].decision_marker = k[2]
                  THEN LET i == CHOOSE i \in 1..Len(rows) :
                                  rows[i].date = k[1]
                                  /\ rows[i].decision_marker = k[2]
                       IN <<rows[i].delta>>
                  ELSE NaN]]

\* position of a day in an index
PosOf(idx, d) == CHOOSE i \in 1..Len(idx) : idx[i] = d

\* DataFrame.asfreq("D", fill_value=0): reindex to every day from the
\* first to the last index entry; new rows take fill_value
asfreq_mut(t, fill_value) == t
asfreq(t, fill_value) ==
  IF t.index = <<>> THEN t
  ELSE LET lo == t.index[1]
           hi == t.index[Len(t.index)]
           idx == [i \in 1..(hi - lo + 1) |-> lo + i - 1]
       IN  [index |-> idx, columns |-> t.columns,
            val |-> [k \in Range(idx) \X Range(t.columns) |->
                       IF k \in Cells(t) THEN t.val[k] ELSE fill_value]]

\* pivot.diff(): difference to the previous ROW of the table, NaN on the
\* first row
frame_diff_mut(t) ==
  LET dense == asfreq(t, 0)
  IN  [t EXCEPT !.val = [k \in Cells(t) |->
         IF k[1] = t.index[1] THEN NaN
         ELSE <<dense.val[k] - dense.val[<<k[1] - 1, k[2]>>]>>]]
frame_diff(t) ==
  [t EXCEPT !.val = [k \in Cells(t) |->
     LET i == PosOf(t.index, k[1])
     IN  IF i = 1 THEN NaN
         ELSE <<t.val[k] - t.val[<<t.index[i - 1], k[2]>>]>>]]

\* DataFrame.clip(lower=0)
clip_mut(t, lower) == t
clip(t, lower) ==
  [t EXCEPT !.val = [k \in Cells(t) |->
                       IF t.val[k] < lower THEN lower ELSE t.val[k]]]

\* lines 60-71 applied to the frame `daily`
delta_of(rows) ==
  LET pivot == frame_fillna_value(pivot_table(rows), 0)
      diffed == frame_fillna(frame_diff(pivot), pivot)
  IN  clip(asfreq(diffed, 0), 0)

\* build_delta_frame's value for a query result df (lines 45-71)
frame_of(df) == IF df = {} THEN EmptyFrame ELSE delta_of(with_delta(daily_frame(df)))

(* ----------------------------- render_plot ----------------------------- *)
\* DataFrame.empty: some axis has length 0
is_empty(t) == t.index = <<>> \/ t.columns = <<>>

\* math.ceil on a cell value: the least integer not below x
ceil(x) == CHOOSE n \in x..(x + 1) : n >= x /\ n - 1 < x

\* delta.max().max(): the largest cell
frame_max(t) == MaxOf({t.val[k] : k \in Cells(t)})

\* lines 94-98
overall_top_mut(t) ==
  (LET overall_max == IF ~is_empty(t) THEN frame_max(t) ELSE 0
   IN  ceil(overall_max)) + 1
overall_top_of(t) ==
  LET overall_max == IF ~is_empty(t) THEN frame_max(t) ELSE 0
      c == ceil(overall_max)
  IN  (IF 1 > c THEN 1 ELSE c) + 1

\* colour of the i-th line drawn on a fresh panel with no colour given
cycle_color(i) == PropCycle[((i - 1) % Len(PropCycle)) + 1]

\* a panel as plt.subplots creates it: no lines, no title, automatic limits
BlankPanel == [lines |-> <<>>, title |-> "", ylim |-> <<>>]

\* plt.subplots(nrows, ncols=1): with the default squeeze a 1x1 grid comes
\* back as a single Axes object, anything larger as an array of Axes
subplots(nrows) ==
  [kind |-> IF nrows = 1 THEN "Axes" ELSE "ndarray",
   panels |-> [i \in 1..nrows |-> BlankPanel]]

\* lines 100-107: panel 0 after delta.plot, set_ylim and set_title
overview_panel(t, title, top) ==
  [lines |-> [i \in 1..Len(t.columns) |->
                [label |-> t.columns[i], color |-> cycle_color(i)]],
   title |-> title,
   ylim |-> <<0, top>>]

\* line 109
color_map_of(ax0) ==
  [col \in {ax0.lines[i].label : i \in 1..Len(ax0.lines)} |->
     LET i == CHOOSE i \in 1..Len(ax0.lines) : ax0.lines[i].label = col
     IN  ax0.lines[i].color]

\* lines 111-124: the dedicated panel of column col
category_panel_mut(col, color_map, top) ==
  [lines |-> <<[label |-> col, color |-> cycle_color(1)]>>,
   title |-> col,
   ylim |-> <<0, top>>]
category_panel(col, color_map, top) ==
  [lines |-> <<[label |-> col, color |-> color_map[col]]>>,
   title |-> col,
   ylim |-> <<0, top>>]

\* the panels render_plot has drawn when it reaches fig.tight_layout()
drawn_panels(t, title) ==
  LET top == overall_top_of(t)
      ax0 == overview_panel(t, title, top)
      color_map == color_map_of(ax0)
  IN  <<ax0>> \o [i \in 1..Len(t.columns) |->
                    category_panel(t.columns[i], color_map, top)]

(* ------------------------------- inputs -------------------------------- *)
\* instants a row may carry: the last tick before the year, the first tick
\* of every day of the year, the second and the last tick of the year, and
\* the first tick of the next year
TsValues ==
  {start_ms(RunYear) - 1, start_ms(RunYear) + 1,
   end_ms(RunYear) - 1, end_ms(RunYear)}
  \cup {start_ms(RunYear) + d * MsPerDay : d \in 0..(DaysPerYear - 1)}

Rows == [ts : TsValues, marker : Markers, count : Counts]

RECURSIVE SubsetsUpTo(_, _)
SubsetsUpTo(S, k) ==
  IF k = 0 THEN {{}}
  ELSE LET prev == SubsetsUpTo(S, k - 1)
       IN  prev \cup {s \cup {r} : s \in prev, r \in S}

\* the regression fixture: one category, daily sums 5, 5, 8, 8, 8 on five
\* consecutive days
FixtureCounts == <<5, 5, 8, 8, 8>>
Fixture ==
  {[ts |-> start_ms(RunYear) + (i - 1) * MsPerDay, marker |-> "granted",
    count |-> FixtureCounts[i]] : i \in 1..Len(FixtureCounts)}

Databases == SubsetsUpTo(Rows, MaxRows) \cup {Fixture}

(* ------------------------------- state --------------------------------- *)
VARIABLES
  db,        \* rows of the join in tracker.db
  pc,        \* position of main
  conn,      \* the sqlite3 connection: "none", "open" or "closed"
  opened,    \* connections opened so far
  queries,   \* queries issued so far
  daily,     \* build_delta_frame's local frame `daily`
  delta,     \* the table build_delta_frame returned
  fig,       \* the pyplot figure: "none", "open" or "closed"
  axes,      \* the figure's panels
  saved,     \* the image file has been written
  exc,       \* the exception main is propagating, "none" if none
  ret        \* main's return value, <<>> before it returns

vars == <<db, pc, conn, opened, queries, daily, delta, fig, axes, saved, exc, ret>>

Title == "Decision marker daily (2026)"

Init ==
  /\ db \in Databases
  /\ pc = "start"
  /\ conn = "none"
  /\ opened = 0
  /\ queries = 0
  /\ daily = <<>>
  /\ delta = EmptyFrame
  /\ fig = "none"
  /\ axes = <<>>
  /\ saved = FALSE
  /\ exc = "none"
  /\ ret = <<>>

(* ------------------------------- main ---------------------------------- *)
\* line 140: sqlite3.connect(db_path) and entry of the with block
Connect ==
  /\ pc = "start"
  /\ conn' = "open"
  /\ opened' = opened + 1
  /\ pc' = "in_with"
  /\ UNCHANGED <<db, queries, daily, delta, fig, axes, saved, exc, ret>>

\* line 141: build_delta_frame(conn, 2026); the query either answers or
\* raises a database error
build_delta_frame ==
  /\ pc = "in_with"
  /\ queries' = queries + 1
  /\ pc' = "with_exit"
  /\ \/ LET df == read_sql_query(db, RunYear)
        IN  /\ daily' = IF df = {} THEN <<>> ELSE with_delta(daily_frame(df))
            /\ delta' = frame_of(df)
            /\ exc' = "none"
     \/ /\ exc' = "DatabaseError"
        /\ UNCHANGED <<daily, delta>>
  /\ UNCHANGED <<db, conn, opened, fig, axes, saved, ret>>

\* end of the with block: sqlite3.Connection.__exit__ commits (or rolls
\* back when an exception is propagating) and does not close the connection
conn_exit(c) == c

ExitWith ==
  /\ pc = "with_exit"
  /\ conn' = conn_exit(conn)
  /\ pc' = IF exc = "none" THEN "render" ELSE "raised"
  /\ UNCHANGED <<db, opened, queries, daily, delta, fig, axes, saved, exc, ret>>

\* line 143: render_plot(delta, title=...)
render_plot ==
  /\ pc = "render"
  /\ fig' = "open"
  /\ LET made == subplots(1 + Len(delta.columns))
     IN  IF made.kind # "ndarray"
         THEN \* list(axes) on a single Axes object
              /\ axes' = made.panels
              /\ exc' = "TypeError"
              /\ pc' = "raised"
         ELSE /\ axes' = drawn_panels(delta, Title)
              /\ \/ /\ exc' = "none"
                    /\ pc' = "save"
                 \/ \* fig.tight_layout() raises
                    /\ exc' = "LayoutError"
                    /\ pc' = "raised"
  /\ UNCHANGED <<db, conn, opened, queries, daily, delta, saved, ret>>

\* line 144: fig.savefig(out_path, dpi=200)
Savefig ==
  /\ pc = "save"
  /\ \/ /\ saved' = TRUE
        /\ pc' = "close"
        /\ exc' = "none"
     \/ /\ saved' = FALSE
        /\ pc' = "raised"
        /\ exc' = "OSError"
  /\ UNCHANGED <<db, conn, opened, queries, daily, delta, fig, axes, ret>>

\* line 145: plt.close(fig)
Close ==
  /\ pc = "close"
  /\ fig' = "closed"
  /\ pc' = "return"
  /\ UNCHANGED <<db, conn, opened, queries, daily, delta, axes, saved, exc, ret>>

\* line 146: return 0
Return ==
  /\ pc = "return"
  /\ ret' = <<0>>
  /\ pc' = "done"
  /\ UNCHANGED <<db, conn, opened, queries, daily, delta, fig, axes, saved, exc>>

Next ==
  \/ Connect
  \/ build_delta_frame
  \/ ExitWith
  \/ render_plot
  \/ Savefig
  \/ Close
  \/ Return

Spec == Init /\ [][Next]_vars

(* ------------------------ vocabulary of the claims --------------------- *)
\* build_delta_frame has returned a table
Returned == pc \notin {"start", "in_with"} /\ exc # "DatabaseError"

\* render_plot has returned its figure and panels
Rendered == pc \in {"save", "close", "return", "done"} \/ exc = "OSError"

\* the calendar days of the run's year and the rows dated within them
YearDays == (RunYear * DaysPerYear)..((RunYear + 1) * DaysPerYear - 1)
DayOf(r) == r.ts \div MsPerDay
Matching == {r \in db : DayOf(r) \in YearDays}
RowDays == {DayOf(r) : r \in Matching}

\* the step-3 delta of (day d, category c) in `daily`, 0 where absent
P(d, c) ==
  LET hit == {i \in 1..Len(daily) :
                daily[i].date = d /\ daily[i].decision_marker = c}
  IN  IF hit = {} THEN 0 ELSE daily[CHOOSE i \in hit : TRUE].delta

Pos(x) == IF x < 0 THEN 0 ELSE x

DeltaColumn == [i \in 1..Len(daily) |-> daily[i].delta]
FinalColumn(c) == [i \in 1..Len(delta.index) |-> delta.val[<<delta.index[i], c>>]]

(* ------------------------------- claims -------------------------------- *)
\* C1: for a non-empty set of matching rows the index of the returned table
\* is exactly the calendar days from the earliest to the latest row date,
\* each once and in order, and the cells of days without rows are 0.
C1_DenseIndex ==
  (Returned /\ Matching # {}) =>
    /\ Len(delta.index) = MaxOf(RowDays) - MinOf(RowDays) + 1
    /\ \A i \in 1..Len(delta.index) : delta.index[i] = MinOf(RowDays) + i - 1
    /\ \A d \in Range(delta.index) \ RowDays :
         \A c \in Range(delta.columns) : delta.val[<<d, c>>] = 0

C1_Witness ==
  /\ Returned
  /\ Cardinality(RowDays) = 2
  /\ Len(delta.index) >= 3
  /\ \E i \in 1..Len(delta.index) : delta.index[i] \notin RowDays

\* C2: every cell of the returned table is >= 0, also when counts decrease
\* from one day to the next or are negative.
C2_NonNegative ==
  Returned => \A k \in Cells(delta) : delta.val[k] >= 0

C2_Witness ==
  /\ Returned
  /\ \E i \in 2..Len(daily) :
       /\ daily[i].decision_marker = daily[i - 1].decision_marker
       /\ daily[i].count < 0
       /\ daily[i].count < daily[i - 1].count
       /\ delta.val[<<daily[i].date, daily[i].decision_marker>>] = 0

\* C3: when no row matches, render_plot on the empty table completes without
\* raising and yields exactly one panel, so that main saves and returns 0.
C3_EmptyTableRenders ==
  (Returned /\ is_empty(delta) /\ fig # "none") =>
    /\ exc # "TypeError"
    /\ Len(axes) = 1
    /\ pc # "raised"

\* C4: the year filter is the half-open window [start of year, start of next
\* year): a row at exactly the start-of-year instant is aggregated, a row at
\* exactly the start-of-next-year instant is not, and the daily sums are
\* those of the rows dated within the year and of no other row.
C4_HalfOpenWindow ==
  Returned =>
    /\ \A r \in db : r.ts = MinOf(YearDays) * MsPerDay =>
         \E i \in 1..Len(daily) :
           daily[i].date = DayOf(r) /\ daily[i].decision_marker = r.marker
    /\ \A r \in db : r.ts = (MaxOf(YearDays) + 1) * MsPerDay =>
         DayOf(r) \notin Range(delta.index)
    /\ Range(delta.index) \subseteq YearDays
    /\ {<<daily[i].date, daily[i].decision_marker>> : i \in 1..Len(daily)}
         = {<<DayOf(r), r.marker>> : r \in Matching}
    /\ \A i \in 1..Len(daily) :
         daily[i].count =
           SumCounts({r \in Matching : /\ DayOf(r) = daily[i].date
                                       /\ r.marker = daily[i].decision_marker})

C4_Witness ==
  /\ Returned
  /\ \E r \in db : r.ts = MinOf(YearDays) * MsPerDay
  /\ \E r \in db : r.ts = (MaxOf(YearDays) + 1) * MsPerDay
  /\ Len(delta.index) = 1

\* the table-wide second difference (step 5) of the pivot of `daily`
StepFive ==
  LET pivot == frame_fillna_value(pivot_table(daily), 0)
  IN  frame_fillna(frame_diff(pivot), pivot)

\* the table-wide second difference of a single-column table holding vals
SecondDiffOf(vals) ==
  LET t == [index |-> [i \in 1..Len(vals) |-> i], columns |-> <<"granted">>,
            val |-> [k \in (1..Len(vals)) \X {"granted"} |-> vals[k[1]]]]
      out == frame_fillna(frame_diff(t), t)
  IN  [i \in 1..Len(vals) |-> out.val[<<i, "granted">>]]

\* C5 (as claimed): on the fixture with daily sums 5, 5, 8, 8, 8 the step-3
\* delta column is 5, 0, 3, 0, 0, and the table-wide second difference of a
\* single-column table holding 5, 0, 3, 0, 0 is 5, 0, 3, 0, 0 again.
C5_Original ==
  (Returned /\ db = Fixture) =>
    /\ DeltaColumn = <<5, 0, 3, 0, 0>>
    /\ SecondDiffOf(<<5, 0, 3, 0, 0>>) = <<5, 0, 3, 0, 0>>

\* C5 (amended): on the fixture with daily sums 5, 5, 8, 8, 8 the step-3
\* delta column is 5, 5, 8, 8, 8 again, and the table-wide second difference
\* of the single-column table holding it is 5, 0, 3, 0, 0, which is also the
\* returned table.
C5_FixtureDeltas ==
  (Returned /\ db = Fixture) =>
    /\ DeltaColumn = <<5, 5, 8, 8, 8>>
    /\ StepFive.columns = <<"granted">>
    /\ [i \in 1..5 |-> StepFive.val[<<StepFive.index[i], "granted">>]]
         = <<5, 0, 3, 0, 0>>
    /\ FinalColumn("granted") = <<5, 0, 3, 0, 0>>

C5_Witness == Returned /\ db = Fixture /\ Len(daily) = 5

\* C6: one connection is opened, one query is issued, and the connection is
\* closed whenever the with block has been left, on success and on error.
C6_ConnectionReleased ==
  /\ pc # "start" => opened = 1
  /\ pc \notin {"start", "in_with"} => queries = 1
  /\ pc \in {"render", "save", "close", "return", "done", "raised"} =>
       conn = "closed"

\* C7: a chart that was created is released before the run ends, on every
\* exit path, and on the success path only after the image is written.
C7_ChartReleased ==
  /\ (pc \in {"done", "raised"} /\ fig # "none") => fig = "closed"
  /\ fig = "closed" => saved

\* C8: for a non-empty table with N categories render_plot makes 1 + N
\* panels; the dedicated panel of the i-th column is panel i+1, is titled
\* with the column label and draws its line in the colour that column's line
\* has in the overview panel.
C8_ColourConsistency ==
  (Rendered /\ ~is_empty(delta)) =>
    LET N == Len(delta.columns) IN
    /\ Len(axes) = 1 + N
    /\ Len(axes[1].lines) = N
    /\ \A i \in 1..N :
         /\ axes[1].lines[i].label = delta.columns[i]
         /\ axes[i + 1].title = delta.columns[i]
         /\ Len(axes[i + 1].lines) = 1
         /\ axes[i + 1].lines[1].label = delta.columns[i]
         /\ axes[i + 1].lines[1].color = axes[1].lines[i].color

C8_Witness ==
  /\ Rendered
  /\ Len(delta.columns) = 2
  /\ Len(axes) = 3
  /\ axes[3].lines[1].color = "C1"

C10_Original ==
  (Returned /\ ~is_empty(delta)) =>
    \A k \in Cells(delta) :
      delta.val[k] = IF k[1] = delta.index[1] THEN Pos(P(k[1], k[2]))
                     ELSE Pos(P(k[1], k[2]) - P(k[1] - 1, k[2]))

\* the latest day before d that has rows
PrevRowDay(d) == MaxOf({e \in RowDays : e < d})

\* C10 (amended): the second difference is taken between consecutive days
\* that have rows: on the first day the cell is max(0, P[d][c]), on a later
\* day d with rows it is max(0, P[d][c] - P[p][c]) for p the latest earlier
\* day with rows, and on a day without rows it is 0.
C10_SparseDifference ==
  (Returned /\ ~is_empty(delta)) =>
    \A k \in Cells(delta) :
      delta.val[k] = IF k[1] \notin RowDays THEN 0
                     ELSE IF k[1] = delta.index[1] THEN Pos(P(k[1], k[2]))
                     ELSE Pos(P(k[1], k[2]) - P(PrevRowDay(k[1]), k[2]))

C10_Witness ==
  /\ Returned
  /\ \E k \in Cells(delta) :
       /\ k[1] \in RowDays
       /\ k[1] - 1 \notin RowDays
       /\ k[1] # delta.index[1]
       /\ P(k[1], k[2]) > 0
       /\ delta.val[k] # Pos(P(k[1], k[2]))

====
